---- MODULE Spec2Model ----
(***************************************************************************)
(* Model of link_remover.py: the Word hyperlink-stripping transform        *)
(* (remove_hyperlinks_from_docx / process_paragraph), the PDF annotation   *)
(* stripping transform (remove_hyperlinks_from_pdf) and the batch pipeline *)
(* (process_file / main).                                                  *)
(*                                                                         *)
(* Three specifications share the variables:                               *)
(*   SpecDocx   one .docx document run through the transform, twice        *)
(*   SpecPdf    one PDF run through the transform                          *)
(*   SpecBatch  one run of main over a directory listing                   *)
(***************************************************************************)
EXTENDS Integers, Sequences, FiniteSets, TLC

VARIABLES
    \* ---- Word transform ----
    doc,        \* the parsed document tree (the lxml element heap)
    dpc,        \* position in remove_hyperlinks_from_docx
    worklist,   \* paragraphs still to be handed to process_paragraph
    top_node,   \* the paragraph whose element is being iterated
    next_node,  \* the iterator's precomputed next element
    processed,  \* paragraphs process_paragraph has returned from
    pass,       \* 1: first application, 2: application to the first's output
    text0,      \* visible text of the input document
    hruns0,     \* runs that were children of a hyperlink in the input
    saved,      \* saved[i]: the tree that pass i serialized
    \* ---- PDF transform ----
    reader_pages, writer_pages, page_i, ppc, out_pdf,
    \* ---- batch pipeline ----
    posix, input_dir, out_dir, done_dir, input_dir0, done_dir0,
    input_files, file_i, bpc, success, outcome, success_count, summary

docx_vars  == <<doc, dpc, worklist, top_node, next_node, processed, pass,
                text0, hruns0, saved>>
pdf_vars   == <<reader_pages, writer_pages, page_i, ppc, out_pdf>>
batch_vars == <<posix, input_dir, out_dir, done_dir, input_dir0, done_dir0,
                input_files, file_i, bpc, success, outcome, success_count,
                summary>>
vars == <<docx_vars, pdf_vars, batch_vars>>

(***************************************************************************)
(* Bounds of the model.                                                    *)
(***************************************************************************)
MaxParaKids   == 2   \* children of a paragraph
MaxLinkKids   == 2   \* children of a hyperlink
MaxColors     == 2   \* w:color elements in one w:rPr
MaxTableDepth == 2   \* nesting depth of tables
MaxPages      == 2   \* pages of a PDF
MaxAnnots     == 2   \* annotations on a page
MaxFiles      == 3   \* entries of input/

SeqsUpTo(S, n) == UNION { [1..k -> S] : k \in 0..n }

(***************************************************************************)
(* Qualified names and literals of process_paragraph.                      *)
(***************************************************************************)
hyperlink_qn == "w:hyperlink"
run_qn       == "w:r"
color_qn     == "w:color"
rPr_qn       == "w:rPr"
BLACK        == "000000"

(***************************************************************************)
(* The element heap.  A node is identified by the path it had in the input *)
(* document (<<>> is w:body); an element made by makeelement gets          *)
(* <<0, k>>.  NULL is the absent element (None / a NULL xmlNode pointer).  *)
(* Each node has a tag, an attribute value (w:val), its ordered children   *)
(* and its parent.                                                         *)
(***************************************************************************)
NULL == <<0>>

Elem(t, v, ks) == [tag |-> t, val |-> v, kids |-> ks]

RECURSIVE PathsOf(_, _)
PathsOf(sh, p) ==
    {p} \cup UNION { PathsOf(sh.kids[i], Append(p, i)) : i \in 1..Len(sh.kids) }

RECURSIVE Sub(_, _)
Sub(sh, p) == IF p = <<>> THEN sh ELSE Sub(sh.kids[Head(p)], Tail(p))

\* Document(input_path): the tree parsed from the package.
Document(sh) ==
    LET ps == PathsOf(sh, <<>>) IN
    [ tag    |-> [p \in ps |-> Sub(sh, p).tag],
      val    |-> [p \in ps |-> Sub(sh, p).val],
      kids   |-> [p \in ps |-> [i \in 1..Len(Sub(sh, p).kids) |-> Append(p, i)]],
      parent |-> [p \in ps |-> IF p = <<>> THEN NULL
                               ELSE SubSeq(p, 1, Len(p) - 1)],
      fresh  |-> 0 ]

Root == <<>>

\* The tree below n as a value (what serialization writes, node identity gone).
RECURSIVE Shape(_, _)
Shape(T, n) ==
    Elem(T.tag[n], T.val[n],
         [i \in 1..Len(T.kids[n]) |-> Shape(T, T.kids[n][i])])

\* n and its descendants, in no order.
RECURSIVE Subtree(_, _)
Subtree(T, n) ==
    {n} \cup UNION { Subtree(T, T.kids[n][i]) : i \in 1..Len(T.kids[n]) }

RECURSIVE Flatten(_)
Flatten(ss) == IF ss = <<>> THEN <<>> ELSE Head(ss) \o Flatten(Tail(ss))

\* The text-bearing nodes below n, in document order.
RECURSIVE VisibleText(_, _)
VisibleText(T, n) ==
    IF T.tag[n] = "w:t" THEN <<n>>
    ELSE Flatten([i \in 1..Len(T.kids[n]) |-> VisibleText(T, T.kids[n][i])])

IndexOf(s, e) == CHOOSE i \in 1..Len(s) : s[i] = e

RemoveAt(s, i) == SubSeq(s, 1, i - 1) \o SubSeq(s, i + 1, Len(s))

InsertAt(s, i, e) == SubSeq(s, 1, i - 1) \o <<e>> \o SubSeq(s, i, Len(s))

(***************************************************************************)
(* The lxml element API used by process_paragraph.                         *)
(***************************************************************************)
\* element.findall(tag): the direct children with that tag, in order.
findall(T, e, tg) == SelectSeq(T.kids[e], LAMBDA c : T.tag[c] = tg)

\* element.find(tag): the first direct child with that tag, or None.
find(T, e, tg) ==
    IF findall(T, e, tg) = <<>> THEN NULL ELSE Head(findall(T, e, tg))

\* element.getparent()
getparent(T, e) == T.parent[e]

\* element.makeelement(tag): a new parentless element.
LastMade(T) == <<0, T.fresh>>

makeelement(T, tg) ==
    LET n == <<0, T.fresh + 1>> IN
    [ tag    |-> T.tag @@ (n :> tg),
      val    |-> T.val @@ (n :> ""),
      kids   |-> T.kids @@ (n :> <<>>),
      parent |-> T.parent @@ (n :> NULL),
      fresh  |-> T.fresh + 1 ]

\* element.set(qn('w:val'), v)
set(T, e, v) == [T EXCEPT !.val[e] = v]

\* Unlink e from its parent, if it has one.
Unlink(T, e) ==
    IF T.parent[e] = NULL THEN T
    ELSE LET p == T.parent[e] IN
         [T EXCEPT !.kids[p] = RemoveAt(@, IndexOf(@, e)),
                   !.parent[e] = NULL]

\* parent.remove(e)
remove(T, par, e) == Unlink(T, e)

\* parent.append(e): e leaves its old parent and becomes the last child.
append(T, par, e) ==
    LET U == Unlink(T, e) IN
    [U EXCEPT !.kids[par] = Append(@, e), !.parent[e] = par]

\* parent.insert(index, e), index counted from 0: e is put before the child
\* that is at index now (appended when there is none).
insert(T, par, index, e) ==
    IF index + 1 > Len(T.kids[par]) THEN append(T, par, e)
    ELSE LET at == T.kids[par][index + 1]
             U  == Unlink(T, e)
         IN [U EXCEPT !.kids[par] = InsertAt(@, IndexOf(@, at), e),
                      !.parent[e] = par]

\* The element after c in document order under top, as the depth-first
\* iterator of element.iter() computes it: first child, else next sibling,
\* else the next sibling of the nearest ancestor below top that has one.
NextSibling(T, c) ==
    IF T.parent[c] = NULL THEN NULL
    ELSE LET s == T.kids[T.parent[c]]
             i == IndexOf(s, c)
         IN IF i < Len(s) THEN s[i + 1] ELSE NULL

RECURSIVE BackOff(_, _, _)
BackOff(T, top, c) ==
    LET p == T.parent[c] IN
    IF p = NULL \/ p = top THEN NULL
    ELSE IF NextSibling(T, p) # NULL THEN NextSibling(T, p)
    ELSE BackOff(T, top, p)

TraverseToNext(T, top, c) ==
    IF T.kids[c] # <<>> THEN T.kids[c][1]
    ELSE IF c = top THEN NULL
    ELSE IF NextSibling(T, c) # NULL THEN NextSibling(T, c)
    ELSE BackOff(T, top, c)

(***************************************************************************)
(* process_paragraph: the body of the loop for one hyperlink element.      *)
(***************************************************************************)
\* One run: get or create w:rPr, drop the colour find() returns, append black.
ForceBlack(T, run_elem) ==
    LET T1  == IF find(T, run_elem, rPr_qn) = NULL
               THEN LET M == makeelement(T, rPr_qn)
                    IN insert(M, run_elem, 0, LastMade(M))
               ELSE T
        rPr == find(T1, run_elem, rPr_qn)
        old == find(T1, rPr, color_qn)
        T2  == IF old # NULL THEN remove(T1, rPr, old) ELSE T1
        T3  == makeelement(T2, color_qn)
    IN append(set(T3, LastMade(T3), BLACK), rPr, LastMade(T3))

RECURSIVE ForceBlackAll(_, _)
ForceBlackAll(T, runs) ==
    IF runs = <<>> THEN T
    ELSE ForceBlackAll(ForceBlack(T, Head(runs)), Tail(runs))

\* for run_elem in reversed(runs): parent.insert(hyperlink_index, run_elem)
RECURSIVE MoveRunsOut(_, _, _, _)
MoveRunsOut(T, par, hyperlink_index, runs) ==
    IF runs = <<>> THEN T
    ELSE MoveRunsOut(insert(T, par, hyperlink_index, runs[Len(runs)]),
                     par, hyperlink_index, SubSeq(runs, 1, Len(runs) - 1))

Unwrap(T, hyperlink) ==
    LET par  == getparent(T, hyperlink)
        runs == findall(T, hyperlink, run_qn)
        T1   == ForceBlackAll(T, runs)
        hyperlink_index == IndexOf(T1.kids[par], hyperlink) - 1
        T2   == MoveRunsOut(T1, par, hyperlink_index, runs)
    IN remove(T2, par, hyperlink)

(***************************************************************************)
(* python-docx collections used by remove_hyperlinks_from_docx.            *)
(***************************************************************************)
\* doc.paragraphs / cell.paragraphs: the w:p children of the container.
paragraphs(T, container) == findall(T, container, "w:p")

\* doc.tables: the w:tbl children of the body.
tables(T, container) == findall(T, container, "w:tbl")

rows(T, tbl) == findall(T, tbl, "w:tr")

cells(T, tr) == findall(T, tr, "w:tc")

\* The paragraphs the four nested loops over doc.tables visit, in order.
table_paragraphs(T) ==
    Flatten([i \in 1..Len(tables(T, Root)) |->
      Flatten([j \in 1..Len(rows(T, tables(T, Root)[i])) |->
        Flatten([k \in 1..Len(cells(T, rows(T, tables(T, Root)[i])[j])) |->
          paragraphs(T, cells(T, rows(T, tables(T, Root)[i])[j])[k])])])])

(***************************************************************************)
(* Input documents.                                                        *)
(***************************************************************************)
TextShape == Elem("w:t", "", <<>>)

ColorShapes == { Elem(color_qn, "0000FF", <<>>) }

PlainRun == Elem(run_qn, "", <<TextShape>>)

\* Runs: without w:rPr, or with a w:rPr holding up to c colour properties.
RunShapes(c) ==
    {PlainRun} \cup
    { Elem(run_qn, "", <<Elem(rPr_qn, "", cs), TextShape>>) :
        cs \in SeqsUpTo(ColorShapes, c) }

\* What a hyperlink may hold: runs, a non-run wrapper carrying a run
\* (a tracked insertion), and a non-run marker without text.
LinkKidShapes(c) ==
    RunShapes(c) \cup { Elem("w:ins", "", <<PlainRun>>),
                        Elem("w:bookmarkStart", "", <<>>) }

HyperlinkShapes(k, c) ==
    { Elem(hyperlink_qn, "", ks) : ks \in SeqsUpTo(LinkKidShapes(c), k) }

ParaShapes(n, k, c) ==
    { Elem("w:p", "", ks) :
        ks \in SeqsUpTo({PlainRun} \cup HyperlinkShapes(k, c), n) \ {<<>>} }

SmallParas ==
    { Elem("w:p", "", <<PlainRun>>),
      Elem("w:p", "", <<Elem(hyperlink_qn, "", <<PlainRun>>)>>) }

RECURSIVE TableShapes(_)
TableShapes(d) ==
    IF d = 0 THEN {}
    ELSE { Elem("w:tbl", "",
             <<Elem("w:tr", "", <<Elem("w:tc", "", <<sp>> \o inner)>>)>>) :
           sp \in SmallParas,
           inner \in {<<>>} \cup { <<t>> : t \in TableShapes(d - 1) } }

\* One-paragraph documents, and documents of a paragraph and a table whose
\* cells hold a paragraph and possibly a nested table.
DocShapes(n, k, c, d) ==
    { Elem("w:body", "", <<p>>) : p \in ParaShapes(n, k, c) } \cup
    { Elem("w:body", "", <<sp, t>>) : sp \in SmallParas, t \in TableShapes(d) }

(***************************************************************************)
(* remove_hyperlinks_from_docx, step by step.                              *)
(***************************************************************************)
PdfIdle ==
    /\ reader_pages = <<>> /\ writer_pages = <<>> /\ page_i = 0
    /\ ppc = "idle" /\ out_pdf = NULL

BatchIdle ==
    /\ posix = TRUE /\ input_dir = {} /\ out_dir = {} /\ done_dir = {}
    /\ input_dir0 = {} /\ done_dir0 = {}
    /\ input_files = <<>> /\ file_i = 0 /\ bpc = "idle" /\ success = FALSE
    /\ outcome = <<>> /\ success_count = 0 /\ summary = NULL

DocxIdle ==
    /\ doc = Document(Elem("w:body", "", <<>>)) /\ dpc = "idle"
    /\ worklist = <<>> /\ top_node = NULL /\ next_node = NULL
    /\ processed = {} /\ pass = 0 /\ text0 = <<>> /\ hruns0 = {}
    /\ saved = <<>>

InitDocx ==
    /\ \E sh \in DocShapes(MaxParaKids, MaxLinkKids, MaxColors, MaxTableDepth) :
         /\ doc = Document(sh)
         /\ text0 = VisibleText(Document(sh), Root)
         /\ hruns0 = { n \in PathsOf(sh, <<>>) :
                         /\ Sub(sh, n).tag = run_qn
                         /\ n # <<>>
                         /\ Sub(sh, SubSeq(n, 1, Len(n) - 1)).tag = hyperlink_qn }
    /\ dpc = "open"
    /\ worklist = <<>> /\ top_node = NULL /\ next_node = NULL
    /\ processed = {} /\ pass = 1 /\ saved = <<>>
    /\ PdfIdle /\ BatchIdle

\* for paragraph in doc.paragraphs:
BodyLoopBegin ==
    /\ dpc = "open"
    /\ worklist' = paragraphs(doc, Root)
    /\ dpc' = "body"
    /\ UNCHANGED <<doc, top_node, next_node, processed, pass, text0, hruns0, saved>>
    /\ UNCHANGED <<pdf_vars, batch_vars>>

\* process_paragraph(paragraph): paragraph._element.iter() is created.
ProcessParagraphBegin ==
    /\ dpc \in {"body", "tables"}
    /\ worklist # <<>>
    /\ top_node' = Head(worklist)
    /\ next_node' = Head(worklist)
    /\ worklist' = Tail(worklist)
    /\ dpc' = IF dpc = "body" THEN "iter_body" ELSE "iter_tables"
    /\ UNCHANGED <<doc, processed, pass, text0, hruns0, saved>>
    /\ UNCHANGED <<pdf_vars, batch_vars>>

\* One turn of the for loop: the iterator yields the element it holds and
\* computes its successor on the tree as it is now; then the loop body runs.
IterVisitOther ==
    /\ dpc \in {"iter_body", "iter_tables"}
    /\ next_node # NULL
    /\ ~(doc.tag[next_node] = hyperlink_qn /\ getparent(doc, next_node) # NULL)
    /\ next_node' = TraverseToNext(doc, top_node, next_node)
    /\ UNCHANGED <<doc, dpc, worklist, top_node, processed, pass, text0, hruns0, saved>>
    /\ UNCHANGED <<pdf_vars, batch_vars>>

IterVisitHyperlink ==
    /\ dpc \in {"iter_body", "iter_tables"}
    /\ next_node # NULL
    /\ doc.tag[next_node] = hyperlink_qn
    /\ getparent(doc, next_node) # NULL
    /\ next_node' = TraverseToNext(doc, top_node, next_node)
    /\ doc' = Unwrap(doc, next_node)
    /\ UNCHANGED <<dpc, worklist, top_node, processed, pass, text0, hruns0, saved>>
    /\ UNCHANGED <<pdf_vars, batch_vars>>

\* The iterator is exhausted: process_paragraph returns.
ProcessParagraphEnd ==
    /\ dpc \in {"iter_body", "iter_tables"}
    /\ next_node = NULL
    /\ processed' = processed \cup {top_node}
    /\ dpc' = IF dpc = "iter_body" THEN "body" ELSE "tables"
    /\ UNCHANGED <<doc, worklist, top_node, next_node, pass, text0, hruns0, saved>>
    /\ UNCHANGED <<pdf_vars, batch_vars>>

\* for table in doc.tables: for row ...: for cell ...: for paragraph ...
TableLoopBegin ==
    /\ dpc = "body"
    /\ worklist = <<>>
    /\ worklist' = table_paragraphs(doc)
    /\ dpc' = "tables"
    /\ UNCHANGED <<doc, top_node, next_node, processed, pass, text0, hruns0, saved>>
    /\ UNCHANGED <<pdf_vars, batch_vars>>

\* doc.save(output_path)
DocxSave ==
    /\ dpc = "tables"
    /\ worklist = <<>>
    /\ saved' = Append(saved, Shape(doc, Root))
    /\ dpc' = "saved"
    /\ UNCHANGED <<doc, worklist, top_node, next_node, processed, pass, text0, hruns0>>
    /\ UNCHANGED <<pdf_vars, batch_vars>>

\* The transform applied to its own output: Document(output_path).
DocxReopen ==
    /\ dpc = "saved"
    /\ pass = 1
    /\ doc' = Document(saved[1])
    /\ pass' = 2
    /\ dpc' = "open"
    /\ processed' = {}
    /\ top_node' = NULL /\ next_node' = NULL
    /\ UNCHANGED <<worklist, text0, hruns0, saved>>
    /\ UNCHANGED <<pdf_vars, batch_vars>>

NextDocx ==
    \/ BodyLoopBegin
    \/ ProcessParagraphBegin
    \/ IterVisitOther
    \/ IterVisitHyperlink
    \/ ProcessParagraphEnd
    \/ TableLoopBegin
    \/ DocxSave
    \/ DocxReopen

SpecDocx == InitDocx /\ [][NextDocx]_vars

(***************************************************************************)
(* Claims about the Word transform (checked under SpecDocx).               *)
(***************************************************************************)
Reachable(T) == Subtree(T, Root)

\* C1 (text preservation): when the first application has saved its tree, the
\* text-bearing nodes of that tree, read in document order, are exactly the
\* text-bearing nodes of the input document in their original order.
C1_TextPreserved ==
    (dpc = "saved" /\ pass = 1) => VisibleText(doc, Root) = text0

\* C2 (structural removal by the walk): every paragraph process_paragraph has
\* returned from holds no hyperlink node any more, i.e. the walk that edits
\* the tree while iterating skipped no hyperlink and did not stop early.
C2_NoHyperlinkLeft ==
    \A p \in processed :
        \A n \in Subtree(doc, p) : doc.tag[n] # hyperlink_qn

\* C3 (colour forcing): when the first application has saved its tree, every
\* run that was a child of a hyperlink in the input and has been unwrapped
\* into the output has a w:rPr holding a black w:color, and holds no w:color
\* of any other value.
ColorsOf(T, r) ==
    { c \in Subtree(T, r) :
        /\ T.tag[c] = color_qn
        /\ T.parent[c] # NULL
        /\ T.tag[T.parent[c]] = rPr_qn
        /\ T.parent[T.parent[c]] = r }

C3_ColorForced ==
    (dpc = "saved" /\ pass = 1) =>
        \A r \in hruns0 \cap Reachable(doc) :
            doc.tag[doc.parent[r]] # hyperlink_qn =>
                /\ \E c \in ColorsOf(doc, r) : doc.val[c] = BLACK
                /\ \A c \in ColorsOf(doc, r) : doc.val[c] = BLACK

\* C9 (idempotence): the tree saved by the transform applied to its own
\* output is structurally equal to that output.
C9_Idempotent ==
    (dpc = "saved" /\ pass = 2) => saved[2] = saved[1]

\* C10 (traversal coverage): when the tree is saved, process_paragraph has
\* been applied to every paragraph reachable from the body, the paragraphs
\* in cells of tables at any nesting depth included.
C10_AllParagraphsProcessed ==
    dpc = "saved" =>
        \A n \in Reachable(doc) : doc.tag[n] = "w:p" => n \in processed

(***************************************************************************)
(* remove_hyperlinks_from_pdf.  A page is its dictionary: a function from  *)
(* keys to values; "/Annots" is present or not.  The content stream of a   *)
(* page is named by the page's number in the input.                        *)
(***************************************************************************)
AnnotTypes == {"/Link", "/Widget"}

PageDicts(i, a) ==
    { ("/Contents" :> i) @@ ("/MediaBox" :> "A4") } \cup
    { ("/Contents" :> i) @@ ("/MediaBox" :> "A4") @@ ("/Annots" :> as) :
        as \in SeqsUpTo(AnnotTypes, a) }

RECURSIVE PdfsOfLen(_, _)
PdfsOfLen(n, a) ==
    IF n = 0 THEN { <<>> }
    ELSE { Append(ps, d) : ps \in PdfsOfLen(n - 1, a), d \in PageDicts(n, a) }

\* Documents of up to n pages, each with no annotation list or one of up to
\* a annotations.
PdfInputs(n, a) == UNION { PdfsOfLen(k, a) : k \in 0..n }

\* del page_dict['/Annots']
DelAnnotsLinksOnly(page_dict) ==
    IF \A i \in 1..Len(page_dict["/Annots"]) : page_dict["/Annots"][i] = "/Link"
    THEN [k \in DOMAIN page_dict \ {"/Annots"} |-> page_dict[k]]
    ELSE page_dict

DelAnnots(page_dict) ==
    [k \in DOMAIN page_dict \ {"/Annots"} |-> page_dict[k]]

\* One turn of the loop over reader.pages: the page is cloned into the
\* writer and the clone loses its annotation list when it has one.
StripPage(page) ==
    IF "/Annots" \in DOMAIN page THEN DelAnnots(page) ELSE page

InitPdf ==
    /\ reader_pages \in PdfInputs(MaxPages, MaxAnnots)
    /\ writer_pages = <<>>
    /\ page_i = 1
    /\ ppc = "loop"
    /\ out_pdf = NULL
    /\ DocxIdle /\ BatchIdle

\* page_obj = writer.add_page(page); if '/Annots' in page_obj: del ...
PdfAddPage ==
    /\ ppc = "loop"
    /\ page_i <= Len(reader_pages)
    /\ writer_pages' = Append(writer_pages, StripPage(reader_pages[page_i]))
    /\ page_i' = page_i + 1
    /\ UNCHANGED <<reader_pages, ppc, out_pdf>>
    /\ UNCHANGED <<docx_vars, batch_vars>>

\* with open(output_path, 'wb') as output_file: writer.write(output_file)
PdfWrite ==
    /\ ppc = "loop"
    /\ page_i > Len(reader_pages)
    /\ out_pdf' = writer_pages
    /\ ppc' = "written"
    /\ UNCHANGED <<reader_pages, writer_pages, page_i>>
    /\ UNCHANGED <<docx_vars, batch_vars>>

\* except Exception: an error while copying a page; nothing is written.
PdfError ==
    /\ ppc = "loop"
    /\ ppc' = "failed"
    /\ UNCHANGED <<reader_pages, writer_pages, page_i, out_pdf>>
    /\ UNCHANGED <<docx_vars, batch_vars>>

NextPdf ==
    \/ PdfAddPage
    \/ PdfWrite
    \/ PdfError

SpecPdf == InitPdf /\ [][NextPdf]_vars

\* C4 (annotation removal): the written document has as many pages as the
\* input, page i is input page i without its "/Annots" entry and with every
\* other entry unchanged, whatever annotations the input page carried.
C4_AnnotsRemoved ==
    ppc = "written" =>
        /\ Len(out_pdf) = Len(reader_pages)
        /\ \A i \in 1..Len(reader_pages) :
             /\ DOMAIN out_pdf[i] = DOMAIN reader_pages[i] \ {"/Annots"}
             /\ \A k \in DOMAIN out_pdf[i] : out_pdf[i][k] = reader_pages[i][k]

\* A written two-page document whose first input page had no annotation list
\* and whose second had a link and a form widget.
C4_Witness ==
    /\ ppc = "written"
    /\ Len(reader_pages) = 2
    /\ "/Annots" \notin DOMAIN reader_pages[1]
    /\ "/Annots" \in DOMAIN reader_pages[2]
    /\ reader_pages[2]["/Annots"] = <<"/Link", "/Widget">>
    /\ out_pdf[1]["/Contents"] = 1
    /\ out_pdf[2]["/Contents"] = 2

(***************************************************************************)
(* The batch pipeline: process_file and main.                              *)
(*                                                                         *)
(* A file name is a sequence of characters.  A directory is a set of       *)
(* entries; an entry of input/ or done/ is [name, kind, id], an entry of   *)
(* out/ is [name, from, complete]: the output written from the file with   *)
(* that id, whole or cut off by a failed write.                            *)
(***************************************************************************)
UpperChars == <<"A", "C", "D", "F", "O", "P", "X">>
LowerChars == <<"a", "c", "d", "f", "o", "p", "x">>

\* str.lower(), character by character.
LowerChar(c) ==
    IF \E i \in 1..Len(UpperChars) : UpperChars[i] = c
    THEN LowerChars[CHOOSE i \in 1..Len(UpperChars) : UpperChars[i] = c]
    ELSE c

lower(s) == [i \in 1..Len(s) |-> LowerChar(s[i])]

\* Path.suffix: the name from its last dot on, unless that dot is the first
\* or the last character, or there is none.
suffix(name) ==
    LET dots == { i \in 1..Len(name) : name[i] = "." } IN
    IF dots = {} THEN <<>>
    ELSE LET i == CHOOSE d \in dots : \A e \in dots : e <= d IN
         IF 1 < i /\ i < Len(name) THEN SubSeq(name, i, Len(name)) ELSE <<>>

ext_docx == <<".", "d", "o", "c", "x">>
ext_pdf  == <<".", "p", "d", "f">>

EndsWith(s, t) ==
    Len(s) >= Len(t) /\ SubSeq(s, Len(s) - Len(t) + 1, Len(s)) = t

\* Whether name matches the pattern '*' + ext of Path.glob: the name ends
\* with ext, compared exactly on a POSIX path flavour and with case folded
\* on a Windows one.
glob_match(name, ext, case_sensitive) ==
    IF case_sensitive THEN EndsWith(name, ext)
    ELSE EndsWith(lower(name), lower(ext))

\* The branch process_file takes for a name.
file_type(name) ==
    IF lower(suffix(name)) = ext_docx THEN "docx"
    ELSE IF lower(suffix(name)) = ext_pdf THEN "pdf"
    ELSE "unsupported"

\* Whether two names denote the same directory entry.
SameFsName(a, b) == IF posix THEN a = b ELSE lower(a) = lower(b)

Candidates ==
    { [name |-> <<"a", ".", "d", "o", "c", "x">>, kind |-> "file", id |-> 1],
      [name |-> <<"A", ".", "D", "O", "C", "X">>, kind |-> "file", id |-> 2],
      [name |-> <<"b", ".", "p", "d", "f">>,      kind |-> "file", id |-> 3],
      [name |-> <<"c", ".", "P", "d", "f">>,      kind |-> "file", id |-> 4],
      [name |-> <<"n", ".", "t", "x", "t">>,      kind |-> "file", id |-> 5],
      [name |-> <<".", "d", "o", "c", "x">>,      kind |-> "file", id |-> 6],
      [name |-> <<"d", ".", "d", "o", "c", "x">>, kind |-> "dir",  id |-> 7] }

\* What an earlier run left behind for a.docx.
PriorDone == { [name |-> <<"a", ".", "d", "o", "c", "x">>, kind |-> "file", id |-> 0] }
PriorOut  == { [name |-> <<"a", ".", "d", "o", "c", "x">>, from |-> 0, complete |-> TRUE] }

Perms(S) ==
    { s \in [1..Cardinality(S) -> S] : \A i, j \in 1..Cardinality(S) : i # j => s[i] # s[j] }

\* list(input_dir.glob('*.docx')) + list(input_dir.glob('*.pdf')): each glob
\* yields its matches in the order of the directory listing.
glob(dir, ext, case_sensitive) ==
    Perms({ e \in dir : glob_match(e.name, ext, case_sensitive) })

Range(s) == { s[i] : i \in 1..Len(s) }

\* The output file written under the original's name, replacing what was there.
write_output(dir, f, whole) ==
    { o \in dir : ~SameFsName(o.name, f.name) }
        \cup { [name |-> f.name, from |-> f.id, complete |-> whole] }

\* shutil.move(input_file, done_file): the entry leaves input/ and replaces
\* whatever done/ held under that name.
shutil_copy(inp, done, f) ==
    [ input |-> inp,
      done  |-> { e \in done : ~SameFsName(e.name, f.name) } \cup {f} ]

shutil_move(inp, done, f) ==
    [ input |-> inp \ {f},
      done  |-> { e \in done : ~SameFsName(e.name, f.name) } \cup {f} ]

\* if success: (line 320)
should_move_always(ok) == TRUE

should_move(ok) == ok

InitBatch ==
    /\ posix \in BOOLEAN
    /\ \E S \in SUBSET Candidates :
         /\ Cardinality(S) <= MaxFiles
         /\ \A e1, e2 \in S : e1 # e2 => ~SameFsName(e1.name, e2.name)
         /\ input_dir = S
         /\ input_dir0 = S
    /\ \E prior \in BOOLEAN :
         /\ done_dir = (IF prior THEN PriorDone ELSE {})
         /\ out_dir = (IF prior THEN PriorOut ELSE {})
    /\ done_dir0 = done_dir
    /\ input_files = <<>> /\ file_i = 0 /\ bpc = "start" /\ success = FALSE
    /\ outcome = <<>> /\ success_count = 0 /\ summary = NULL
    /\ DocxIdle /\ PdfIdle

\* main, lines 342-353: the listing; nothing to do when it is empty.
MainList ==
    /\ bpc = "start"
    /\ \E d \in glob(input_dir, ext_docx, posix), p \in glob(input_dir, ext_pdf, posix) :
         /\ input_files' = d \o p
         /\ bpc' = IF d \o p = <<>> THEN "no_files" ELSE "dispatch"
    /\ file_i' = 1
    /\ UNCHANGED <<posix, input_dir, out_dir, done_dir, input_dir0, done_dir0,
                   success, outcome, success_count, summary>>
    /\ UNCHANGED <<docx_vars, pdf_vars>>

Current == input_files[file_i]

Dispatching == bpc = "dispatch" /\ file_i <= Len(input_files)

\* process_file, lines 310-315, the transform returns True: the output is
\* written whole.  Only a regular file can be parsed.
TransformOk ==
    /\ Dispatching
    /\ file_type(Current.name) # "unsupported"
    /\ Current.kind = "file"
    /\ out_dir' = write_output(out_dir, Current, TRUE)
    /\ success' = TRUE
    /\ bpc' = "transformed"
    /\ UNCHANGED <<posix, input_dir, done_dir, input_dir0, done_dir0, input_files,
                   file_i, outcome, success_count, summary>>
    /\ UNCHANGED <<docx_vars, pdf_vars>>

\* The transform caught an error before it wrote anything (a missing
\* library, a file that does not parse) and returns False.
TransformFail ==
    /\ Dispatching
    /\ file_type(Current.name) # "unsupported"
    /\ success' = FALSE
    /\ bpc' = "transformed"
    /\ UNCHANGED <<posix, input_dir, out_dir, done_dir, input_dir0, done_dir0,
                   input_files, file_i, outcome, success_count, summary>>
    /\ UNCHANGED <<docx_vars, pdf_vars>>

\* The transform caught an error while writing: the output is cut off.
TransformWriteFail ==
    /\ Dispatching
    /\ file_type(Current.name) # "unsupported"
    /\ Current.kind = "file"
    /\ out_dir' = write_output(out_dir, Current, FALSE)
    /\ success' = FALSE
    /\ bpc' = "transformed"
    /\ UNCHANGED <<posix, input_dir, done_dir, input_dir0, done_dir0, input_files,
                   file_i, outcome, success_count, summary>>
    /\ UNCHANGED <<docx_vars, pdf_vars>>

\* process_file, lines 316-318: neither branch; return False.
SkipUnsupported ==
    /\ Dispatching
    /\ file_type(Current.name) = "unsupported"
    /\ outcome' = Append(outcome, [transform |-> "unsupported", returned |-> FALSE])
    /\ file_i' = file_i + 1
    /\ UNCHANGED <<posix, input_dir, out_dir, done_dir, input_dir0, done_dir0,
                   input_files, bpc, success, success_count, summary>>
    /\ UNCHANGED <<docx_vars, pdf_vars>>

\* process_file, lines 320-325: the original is moved; main counts it.
MoveToDone ==
    /\ bpc = "transformed"
    /\ should_move(success)
    /\ input_dir' = shutil_move(input_dir, done_dir, Current).input
    /\ done_dir' = shutil_move(input_dir, done_dir, Current).done
    /\ outcome' = Append(outcome, [transform |-> IF success THEN "ok" ELSE "failed",
                                   returned |-> TRUE])
    /\ success_count' = success_count + 1
    /\ file_i' = file_i + 1
    /\ bpc' = "dispatch"
    /\ UNCHANGED <<posix, out_dir, input_dir0, done_dir0, input_files, success, summary>>
    /\ UNCHANGED <<docx_vars, pdf_vars>>

\* shutil.move raises: nothing catches it in process_file or in main.
MoveRaises ==
    /\ bpc = "transformed"
    /\ should_move(success)
    /\ bpc' = "aborted"
    /\ UNCHANGED <<posix, input_dir, out_dir, done_dir, input_dir0, done_dir0,
                   input_files, file_i, success, outcome, success_count, summary>>
    /\ UNCHANGED <<docx_vars, pdf_vars>>

\* process_file, lines 326-328: return False.
ReturnFailed ==
    /\ bpc = "transformed"
    /\ ~should_move(success)
    /\ outcome' = Append(outcome, [transform |-> "failed", returned |-> FALSE])
    /\ file_i' = file_i + 1
    /\ bpc' = "dispatch"
    /\ UNCHANGED <<posix, input_dir, out_dir, done_dir, input_dir0, done_dir0,
                   input_files, success, success_count, summary>>
    /\ UNCHANGED <<docx_vars, pdf_vars>>

\* main, line 362: the loop is over, the summary is printed.
PrintSummary ==
    /\ bpc = "dispatch"
    /\ file_i > Len(input_files)
    /\ summary' = <<success_count, Len(input_files)>>
    /\ bpc' = "finished"
    /\ UNCHANGED <<posix, input_dir, out_dir, done_dir, input_dir0, done_dir0,
                   input_files, file_i, success, outcome, success_count>>
    /\ UNCHANGED <<docx_vars, pdf_vars>>

NextBatch ==
    \/ MainList
    \/ TransformOk
    \/ TransformFail
    \/ TransformWriteFail
    \/ SkipUnsupported
    \/ MoveToDone
    \/ MoveRaises
    \/ ReturnFailed
    \/ PrintSummary

SpecBatch == InitBatch /\ [][NextBatch]_vars

(***************************************************************************)
(* Claims about the batch pipeline (checked under SpecBatch).              *)
(***************************************************************************)
MainEnded == bpc \in {"finished", "aborted", "no_files"}

\* C5 (errors never abort the batch): whenever main has ended after listing
\* at least one file, process_file has returned for every listed file and the
\* final summary has been printed.
C5_ErrorsNeverAbort ==
    (MainEnded /\ input_files # <<>>) =>
        /\ Len(outcome) = Len(input_files)
        /\ summary # NULL

\* C6 (no relocation without success): every step of a call of process_file
\* that does not succeed (the extension is unsupported, or the transform
\* returned failure) leaves input/ and done/ as they are, so the original is
\* still at its path under input/; for an unsupported extension out/ is left
\* as it is as well.
Unsuccessful ==
    \/ Dispatching /\ file_type(Current.name) = "unsupported"
    \/ Dispatching /\ bpc' = "transformed" /\ ~success'
    \/ bpc = "transformed" /\ ~success

C6_NoRelocationWithoutSuccess ==
    [][ Unsuccessful =>
          /\ input_dir' = input_dir
          /\ Current \in input_dir'
          /\ done_dir' = done_dir
          /\ (file_type(Current.name) = "unsupported" => out_dir' = out_dir) ]_vars

\* A run in which one file was skipped as unsupported, the transform of
\* another failed after cutting off its output, both calls have returned False
\* and both originals are in input/.
C6_Witness ==
    \E i, j \in 1..Len(outcome) :
        /\ outcome[i] = [transform |-> "unsupported", returned |-> FALSE]
        /\ outcome[j] = [transform |-> "failed", returned |-> FALSE]
        /\ input_files[i] \in input_dir
        /\ input_files[j] \in input_dir
        /\ \E o \in out_dir : o.from = input_files[j].id /\ ~o.complete

\* C7 (batch safety at every point of a run): once the listing is made, each
\* listed file is in exactly one of input/ and done/ under its own name; a
\* file is in done/ only if its whole output is in out/ under that name, and
\* that output was there before the move; every file not dispatched yet is in
\* input/ and nothing has been written for it.
HasOutput(dir, f) ==
    \E o \in dir : SameFsName(o.name, f.name) /\ o.from = f.id /\ o.complete

NotYetDispatched ==
    { input_files[i] : i \in { k \in 1..Len(input_files) :
          k > file_i \/ (k = file_i /\ bpc = "dispatch") } }

C7_StatePart ==
    bpc # "start" =>
        /\ \A f \in Range(input_files) :
             /\ (f \in input_dir) # (f \in done_dir)
             /\ f \in done_dir => HasOutput(out_dir, f)
        /\ \A f \in NotYetDispatched :
             /\ f \in input_dir
             /\ \A o \in out_dir : o.from # f.id

Accepted(e) == e.kind = "file" /\ file_type(e.name) # "unsupported"

C8_ListingMatchesDispatcher ==
    bpc # "start" =>
        /\ Range(input_files) = { e \in input_dir0 : Accepted(e) }
        /\ Len(input_files) = Cardinality(Range(input_files))

====
